---- MODULE Spec2Model ----
(***************************************************************************)
(* Model of the docx processor: the fragmented-tag reconstruction engine   *)
(* of scripts/clean_docx_fragments.py (the two regex normalizers,          *)
(* normalize_docx and the command-line main) and the service of            *)
(* app/main.py that calls it (_detect_tags, the key and quota functions,   *)
(* /process-document and /merge-pdf).                                      *)
(*                                                                         *)
(* A text is a sequence of one-character strings.  A byte string is a      *)
(* sequence of byte names: an ASCII byte is named by its character, the    *)
(* other bytes used here are "xC3", "xA9" and "xFF".                       *)
(***************************************************************************)
EXTENDS Integers, Sequences, FiniteSets, TLC

(***************************************************************************)
(* Bounds of the model.                                                    *)
(***************************************************************************)
MaxTokens == 5
MaxNoise == 1
MaxEntries == 2

(***************************************************************************)
(* Character classes of the regular expressions.                           *)
(***************************************************************************)
\* \s of the patterns (the whitespace characters used by the model)
IsSpace(c) == c \in {" ", "\n", "\t"}

\* [A-Za-z_] of the identifier grammar
IsNameStart(c) ==
    c \in {"a","b","c","d","e","f","g","h","i","j","k","l","m","n","o","p","q",
           "r","s","t","u","v","w","x","y","z",
           "A","B","C","D","E","F","G","H","I","J","K","L","M","N","O","P","Q",
           "R","S","T","U","V","W","X","Y","Z","_"}

\* [A-Za-z0-9_-] of the identifier grammar
IsNameChar(c) ==
    IsNameStart(c) \/ c \in {"0","1","2","3","4","5","6","7","8","9","-"}

\* s[a..b-1], the Python slice s[a-1:b-1] on 1-based positions
Slice(s, a, b) == IF b <= a THEN << >> ELSE SubSeq(s, a, b - 1)

(***************************************************************************)
(* <[^>]+> : a tag starts at p when s[p] is "<" and the first ">" after p  *)
(* is not the next character.  TagEnd is the position after the tag, or 0. *)
(***************************************************************************)
RECURSIVE FirstGt(_, _)
FirstGt(s, p) ==
    IF p > Len(s) THEN 0
    ELSE IF s[p] = ">" THEN p
    ELSE FirstGt(s, p + 1)

TagEnd(s, p) ==
    IF p > Len(s) \/ s[p] # "<" THEN 0
    ELSE LET g == FirstGt(s, p + 1)
         IN  IF g > p + 1 THEN g + 1 ELSE 0

\* (?:<[^>]+>|\s)* : greedy; the position after the longest run of noise.
\* A shorter run ends on "<" or whitespace, so no delimiter can follow it.
RECURSIVE SkipNoise(_, _)
SkipNoise(s, p) ==
    IF p > Len(s) THEN p
    ELSE IF IsSpace(s[p]) THEN SkipNoise(s, p + 1)
    ELSE IF TagEnd(s, p) # 0 THEN SkipNoise(s, TagEnd(s, p))
    ELSE p

\* (.*?)(?:C(?:<[^>]+>|\s)*C) from q on: the least position of a closing
\* character that is followed by noise and a second closing character, 0 if
\* there is none.
RECURSIVE FindClose(_, _, _)
FindClose(s, q, cl) ==
    IF q > Len(s) THEN 0
    ELSE IF s[q] = cl
            /\ SkipNoise(s, q + 1) <= Len(s)
            /\ s[SkipNoise(s, q + 1)] = cl
         THEN q
    ELSE FindClose(s, q + 1, cl)

NoMatch == [found |-> FALSE, inner |-> 0, close |-> 0, end |-> 0]

\* One attempt of O(?:<[^>]+>|\s)*O(.*?)(?:C(?:<[^>]+>|\s)*C) at position i:
\* the group is s[inner..close-1], the match is s[i..end-1].
MatchPattern(s, i, op, cl) ==
    IF i > Len(s) \/ s[i] # op THEN NoMatch
    ELSE LET p == SkipNoise(s, i + 1)
         IN  IF p > Len(s) \/ s[p] # op THEN NoMatch
             ELSE LET q == FindClose(s, p + 1, cl)
                  IN  IF q = 0 THEN NoMatch
                      ELSE [found |-> TRUE, inner |-> p + 1, close |-> q,
                            end |-> SkipNoise(s, q + 1) + 1]

pattern_curly(s, i) == MatchPattern(s, i, "{", "}")

pattern_square(s, i) == MatchPattern(s, i, "[", "]")

(***************************************************************************)
(* The cleaning steps of the replacement callbacks.                        *)
(***************************************************************************)
\* re.sub(r"<[^>]+>", "", inner)
RECURSIVE StripTags(_, _)
StripTags(s, p) ==
    IF p > Len(s) THEN << >>
    ELSE IF TagEnd(s, p) # 0 THEN StripTags(s, TagEnd(s, p))
    ELSE <<s[p]>> \o StripTags(s, p + 1)

\* str.replace(old, new): left to right, non-overlapping
RECURSIVE Replace(_, _, _, _)
Replace(s, p, old, new) ==
    IF p > Len(s) THEN << >>
    ELSE IF p + Len(old) - 1 <= Len(s) /\ Slice(s, p, p + Len(old)) = old
         THEN new \o Replace(s, p + Len(old), old, new)
    ELSE <<s[p]>> \o Replace(s, p + 1, old, new)

\* .replace("&lt;", "<").replace("&gt;", ">").replace("&amp;", "&")
DecodeEntities(s) ==
    LET a == Replace(s, 1, <<"&","l","t",";">>, <<"<">>)
        b == Replace(a, 1, <<"&","g","t",";">>, <<">">>)
    IN  Replace(b, 1, <<"&","a","m","p",";">>, <<"&">>)

\* re.sub(r"\s+", "", cleaned)
StripSpace(s) == SelectSeq(s, LAMBDA c : ~IsSpace(c))

\* the cleaning without its first step
CleanedKeepingTags(inner) == StripSpace(DecodeEntities(inner))

Cleaned(inner) == StripSpace(DecodeEntities(StripTags(inner, 1)))

\* re.match(r"^([A-Za-z_][A-Za-z0-9_-]*)$", cleaned)
MatchName(cleaned) ==
    /\ Len(cleaned) >= 1
    /\ IsNameStart(cleaned[1])
    /\ \A k \in 2..Len(cleaned) : IsNameChar(cleaned[k])

\* the callback of the curly pattern: the text that replaces match m of s
repl_curly(s, i, m) ==
    LET cleaned == Cleaned(Slice(s, m.inner, m.close))
    IN  IF ~MatchName(cleaned) THEN Slice(s, i, m.end)
        ELSE <<"{", "{">> \o cleaned \o <<"}", "}">>

\* the callback of the square pattern
repl_square(s, i, m) ==
    LET cleaned == Cleaned(Slice(s, m.inner, m.close))
    IN  IF ~MatchName(cleaned) THEN Slice(s, i, m.end)
        ELSE <<"[", "[">> \o cleaned \o <<"]", "]">>

(***************************************************************************)
(* pattern.subn(repl, text): the matches are found left to right and do    *)
(* not overlap; the count is the number of matches, whatever the callback  *)
(* returned for them.                                                      *)
(***************************************************************************)
RECURSIVE SubnCurly(_, _)
SubnCurly(s, i) ==
    IF i > Len(s) THEN [text |-> << >>, n |-> 0]
    ELSE LET m == pattern_curly(s, i)
         IN  IF m.found
             THEN LET rest == SubnCurly(s, m.end)
                  IN  [text |-> repl_curly(s, i, m) \o rest.text,
                       n |-> 1 + rest.n]
             ELSE LET rest == SubnCurly(s, i + 1)
                  IN  [text |-> <<s[i]>> \o rest.text, n |-> rest.n]

RECURSIVE SubnSquare(_, _)
SubnSquare(s, i) ==
    IF i > Len(s) THEN [text |-> << >>, n |-> 0]
    ELSE LET m == pattern_square(s, i)
         IN  IF m.found
             THEN LET rest == SubnSquare(s, m.end)
                  IN  [text |-> repl_square(s, i, m) \o rest.text,
                       n |-> 1 + rest.n]
             ELSE LET rest == SubnSquare(s, i + 1)
                  IN  [text |-> <<s[i]>> \o rest.text, n |-> rest.n]

_normalize_jinja_curly(xml) == SubnCurly(xml, 1)

_normalize_jinja_square(xml) == SubnSquare(xml, 1)

(***************************************************************************)
(* Bytes and text: data.decode('utf-8', 'ignore') and text.encode('utf-8') *)
(* over the bytes of the model.  "xC3" "xA9" is the two-byte encoding of   *)
(* U+00E9; a lone "xC3", a lone "xA9" and "xFF" are invalid and dropped.   *)
(***************************************************************************)
RECURSIVE Decode(_)
Decode(d) ==
    IF d = << >> THEN << >>
    ELSE IF Head(d) = "xC3"
         THEN IF Len(d) >= 2 /\ d[2] = "xA9"
              THEN <<"U+00E9">> \o Decode(Tail(Tail(d)))
              ELSE Decode(Tail(d))
    ELSE IF Head(d) \in {"xA9", "xFF"} THEN Decode(Tail(d))
    ELSE <<Head(d)>> \o Decode(Tail(d))

RECURSIVE Encode(_)
Encode(t) ==
    IF t = << >> THEN << >>
    ELSE IF Head(t) = "U+00E9" THEN <<"xC3", "xA9">> \o Encode(Tail(t))
    ELSE <<Head(t)>> \o Encode(Tail(t))

(***************************************************************************)
(* Files and archives.  A file is absent, not an archive, an archive being *)
(* written (opened with mode 'w', central directory not yet written) or a  *)
(* closed archive.  An entry has a name, its bytes, and whether the stored *)
(* bytes pass the CRC check of ZipFile.read.                               *)
(***************************************************************************)
InputPath == "input.docx"
OutputPath == "output.docx"
TmpOut == "td/normalized.docx"
Paths == {InputPath, OutputPath, TmpOut}

Absent == [kind |-> "absent", entries |-> << >>]
Garbage == [kind |-> "garbage", entries |-> << >>]
Zip(es) == [kind |-> "zip", entries |-> es]
Writing(es) == [kind |-> "writing", entries |-> es]

\* str.startswith / str.endswith
StartsWith(s, pre) == Len(s) >= Len(pre) /\ SubSeq(s, 1, Len(pre)) = pre
EndsWith(s, suf) ==
    Len(s) >= Len(suf) /\ SubSeq(s, Len(s) - Len(suf) + 1, Len(s)) = suf

\* item.filename.startswith('word/') and item.filename.endswith('.xml')
Qualifying(name) ==
    /\ StartsWith(name, <<"w","o","r","d","/">>)
    /\ EndsWith(name, <<".","x","m","l">>)

\* zin.read(item.filename): the archive is read by NAME, and a name denotes
\* the last entry of the directory that carries it.  The read fails when
\* the file is no longer the archive that was opened or the CRC is wrong.
LastNamed(es, name) ==
    CHOOSE k \in 1..Len(es) :
        /\ es[k].name = name
        /\ \A j \in (k + 1)..Len(es) : es[j].name # name

ZipRead(file, infolist, name) ==
    LET e == infolist[LastNamed(infolist, name)]
    IN  IF file.kind = "zip" /\ e.crc_ok
        THEN [ok |-> TRUE, data |-> e.data]
        ELSE [ok |-> FALSE, data |-> << >>]

\* the try block without the test of enable_square
TransformEntryAlwaysSquare(data, enable_square) ==
    LET text == Decode(data)
        c == _normalize_jinja_curly(text)
        s == _normalize_jinja_square(c.text)
    IN  [data |-> Encode(s.text), n |-> c.n + s.n]

\* the body of the try block for one qualifying entry, without a fault
TransformEntry(data, enable_square) ==
    LET text == Decode(data)
        c == _normalize_jinja_curly(text)
        s == _normalize_jinja_square(c.text)
    IN  IF enable_square
        THEN [data |-> Encode(s.text), n |-> c.n + s.n]
        ELSE [data |-> Encode(c.text), n |-> c.n]

\* the destination opened before the source is looked at
OpenOutcomeDestinationFirst(f, input_path, output_path, creatable) ==
    IF ~creatable
    THEN [exc |-> "OSError", where |-> "destination", fs |-> f]
    ELSE IF f[input_path].kind = "absent"
    THEN [exc |-> "FileNotFoundError", where |-> "source",
          fs |-> [f EXCEPT ![output_path] = Zip(<< >>)]]
    ELSE IF f[input_path].kind # "zip"
    THEN [exc |-> "BadZipFile", where |-> "source-format",
          fs |-> [f EXCEPT ![output_path] = Zip(<< >>)]]
    ELSE [exc |-> "none", where |-> "none",
          fs |-> [f EXCEPT ![output_path] = Writing(<< >>)]]

\* the first statements of normalize_docx: the existence check, then the
\* source opened for reading, then the destination opened with mode 'w'
\* (which creates or truncates it).  creatable: the destination can be
\* created.
OpenOutcome(f, input_path, output_path, creatable) ==
    IF f[input_path].kind = "absent"
    THEN [exc |-> "FileNotFoundError", where |-> "source", fs |-> f]
    ELSE IF f[input_path].kind # "zip"
    THEN [exc |-> "BadZipFile", where |-> "source-format", fs |-> f]
    ELSE IF ~creatable
    THEN [exc |-> "OSError", where |-> "destination", fs |-> f]
    ELSE [exc |-> "none", where |-> "none",
          fs |-> [f EXCEPT ![output_path] = Writing(<< >>)]]

\* zout.writestr(item, data)
WriteStr(f, output_path, item, data) ==
    [f EXCEPT ![output_path] =
        Writing(Append(@.entries,
                       [name |-> item.name, data |-> data, crc_ok |-> TRUE]))]

\* leaving the with block: the destination archive is closed, which writes
\* the central directory of the entries written so far
CloseOut(f, output_path) ==
    [f EXCEPT ![output_path] = Zip(@.entries)]

SeqsUpTo(S, n) == UNION { [1..k -> S] : k \in 0..n }

(***************************************************************************)
(* _detect_tags of app/main.py: the census of the placeholder names of a   *)
(* container.  The pattern is two open braces, optional whitespace, an    *)
(* identifier, optional whitespace, two close braces; whitespace, name     *)
(* characters and "}" are disjoint classes, so each greedy run has one     *)
(* possible length.                                                        *)
(***************************************************************************)
\* \s* : the position after the whitespace run that starts at p
RECURSIVE SkipSpace(_, _)
SkipSpace(s, p) ==
    IF p <= Len(s) /\ IsSpace(s[p]) THEN SkipSpace(s, p + 1) ELSE p

\* [A-Za-z0-9_-]* : the position after the run of name characters at p
RECURSIVE NameEnd(_, _)
NameEnd(s, p) ==
    IF p <= Len(s) /\ IsNameChar(s[p]) THEN NameEnd(s, p + 1) ELSE p

NoTag == [found |-> FALSE, var |-> << >>, end |-> 0]

\* the pattern with markup tolerated as well as whitespace
TagAtToleratingMarkup(s, i) ==
    IF ~(i + 1 <= Len(s) /\ s[i] = "{" /\ s[i + 1] = "{") THEN NoTag
    ELSE LET a == SkipNoise(s, i + 2)
         IN  IF ~(a <= Len(s) /\ IsNameStart(s[a])) THEN NoTag
             ELSE LET e == NameEnd(s, a + 1)
                      q == SkipNoise(s, e)
                  IN  IF q + 1 <= Len(s) /\ s[q] = "}" /\ s[q + 1] = "}"
                      THEN [found |-> TRUE, var |-> Slice(s, a, e),
                            end |-> q + 2]
                      ELSE NoTag

\* the pattern matched at position i: m.group(1) and m.end()
TagAt(s, i) ==
    IF ~(i + 1 <= Len(s) /\ s[i] = "{" /\ s[i + 1] = "{") THEN NoTag
    ELSE LET a == SkipSpace(s, i + 2)
         IN  IF ~(a <= Len(s) /\ IsNameStart(s[a])) THEN NoTag
             ELSE LET e == NameEnd(s, a + 1)
                      q == SkipSpace(s, e)
                  IN  IF q + 1 <= Len(s) /\ s[q] = "}" /\ s[q + 1] = "}"
                      THEN [found |-> TRUE, var |-> Slice(s, a, e),
                            end |-> q + 2]
                      ELSE NoTag

\* x in the sequence q
InSeq(x, q) == \E k \in 1..Len(q) : q[k] = x

\* for m in re.finditer(...): the list found after the matches of the text
\* from position i on (seen is the set of the elements of found)
RECURSIVE ScanText(_, _, _)
ScanText(s, i, found) ==
    IF i > Len(s) THEN found
    ELSE LET m == TagAt(s, i)
         IN  IF ~m.found THEN ScanText(s, i + 1, found)
             ELSE IF InSeq(m.var, found) THEN ScanText(s, m.end, found)
             ELSE ScanText(s, m.end, Append(found, m.var))

\* item.filename.startswith('word/') and item.filename.endswith('.xml')
ScansEntry(name) ==
    /\ StartsWith(name, <<"w","o","r","d","/">>)
    /\ EndsWith(name, <<".","x","m","l">>)

\* what _detect_tags hands to its caller: the list, and whether the warning
\* was logged; raised is "none" as the function catches every Exception
Detected(found) == [found |-> found, warned |-> FALSE, raised |-> "none"]

\* the handler keeping the names collected before the error
DetectFailedKeepingNames(found) ==
    [found |-> found, warned |-> TRUE, raised |-> "none"]

\* except Exception as e: logger.warning(...); return []
DetectFailed(found) == [found |-> << >>, warned |-> TRUE, raised |-> "none"]

\* the for loop over z.infolist() from position i on
RECURSIVE DetectLoop(_, _, _)
DetectLoop(file, i, found) ==
    IF i > Len(file.entries) THEN Detected(found)
    ELSE LET item == file.entries[i]
         IN  IF ~ScansEntry(item.name) THEN DetectLoop(file, i + 1, found)
             ELSE LET rd == ZipRead(file, file.entries, item.name)
                  IN  IF ~rd.ok THEN DetectFailed(found)
                      ELSE DetectLoop(file, i + 1,
                                      ScanText(Decode(rd.data), 1, found))

\* _detect_tags(docx_path) on the file at that path: opening a missing file
\* or a file that is no archive raises inside the try block
_detect_tags(file) ==
    IF file.kind # "zip" THEN DetectFailed(<< >>)
    ELSE DetectLoop(file, 1, << >>)

(***************************************************************************)
(* State.                                                                  *)
(***************************************************************************)
VARIABLES
    xml_text, shape, pass1, pass2, rpc,   \* the reconstructor on one text
    fs,       \* path -> file
    fs0,      \* the file system when normalize_docx was called
    mode,     \* "call": normalize_docx(input, output); "inplace": main --inplace
    args,     \* input_path, output_path, enable_square of the call
    pc,       \* "idle", "loop", "returned", "raised", "exit"
    zin,      \* zin.infolist(), read when the source was opened
    idx,      \* position of the for loop in zin
    total,    \* the local total
    faulted,  \* positions of zin whose try block raised
    result,   \* what the call returned or raised
    docx,     \* the file at the docx_path of _detect_tags
    docx0,    \* that file when _detect_tags was called
    dpc,      \* "ready", "done" ("off" outside the census specification)
    tags,     \* what _detect_tags handed to its caller
    GCP_DISABLED,     \* DISABLE_GCP=1 in the environment
    db,               \* the Firestore client was created by lifespan
    TEMPLATE_BUCKET,  \* the storage client and the bucket were created
    libreoffice,      \* the libreoffice executable is on the PATH
    api_keys,         \* the collection api_keys: key -> document
    req,      \* request -> what the client sent
    hpc,      \* request -> position of its handler
    resp,     \* request -> the response (status 0: none yet)
    sess,     \* request -> its session directory
    trace     \* request -> locals of the handler worth observing

rvars == <<xml_text, shape, pass1, pass2, rpc>>

cvars == <<fs, fs0, mode, args, pc, zin, idx, total, faulted, result>>

dvars == <<docx, docx0, dpc, tags>>

\* configuration of the service, fixed when it starts
config == <<GCP_DISABLED, db, TEMPLATE_BUCKET, libreoffice>>

svars == <<GCP_DISABLED, db, TEMPLATE_BUCKET, libreoffice, api_keys,
           req, hpc, resp, sess, trace>>

vars == <<xml_text, shape, pass1, pass2, rpc,
          fs, fs0, mode, args, pc, zin, idx, total, faulted, result,
          docx, docx0, dpc, tags,
          GCP_DISABLED, db, TEMPLATE_BUCKET, libreoffice, api_keys,
          req, hpc, resp, sess, trace>>

NoArgs == [input_path |-> InputPath, output_path |-> OutputPath,
           enable_square |-> FALSE]

NoOutcome == [status |-> "none", value |-> 0, exc |-> "none", where |-> "none"]

Returned(v) == [status |-> "returned", value |-> v, exc |-> "none",
                where |-> "none"]

Raised(e, w) == [status |-> "raised", value |-> 0, exc |-> e, where |-> w]

(***************************************************************************)
(* The containers of the model.                                            *)
(***************************************************************************)
NameDoc == <<"w","o","r","d","/","d",".","x","m","l">>
NameBin == <<"w","o","r","d","/","d",".","b","i","n">>
NameApp == <<"x","/","d",".","x","m","l">>
Names == {NameDoc, NameBin, NameApp}

\* a curly placeholder torn apart by a tag
DataFragmented == <<"{","<","b",">","{","a","}","}">>
\* an invalid byte in front of a contiguous placeholder
DataInvalidUtf8 == <<"xFF","{","{","a","}","}">>
\* a square placeholder torn apart by whitespace
DataSquare == <<"[", " ", "[","q","]","]">>
\* valid UTF-8 with a contiguous, valid placeholder
DataContiguous == <<"xC3","xA9","{","{","a","}","}">>
Datas == {DataFragmented, DataInvalidUtf8, DataSquare, DataContiguous}

EntryKinds ==
    { [name |-> nm, data |-> d, crc_ok |-> TRUE] : nm \in Names, d \in Datas }
    \cup { [name |-> nm, data |-> DataFragmented, crc_ok |-> FALSE] :
             nm \in Names }

Containers == SeqsUpTo(EntryKinds, MaxEntries)

OldDestination ==
    Zip(<<[name |-> NameApp, data |-> <<"o","l","d">>, crc_ok |-> TRUE]>>)

(***************************************************************************)
(* normalize_docx, one step per statement group, and the two ways it is    *)
(* called: directly (the library call and main with --output) and through  *)
(* main with --inplace, which targets a temporary path.                    *)
(***************************************************************************)
IdleRecon ==
    /\ xml_text = << >>
    /\ shape = [kind |-> "none"]
    /\ pass1 = [text |-> << >>, n |-> 0]
    /\ pass2 = [text |-> << >>, n |-> 0]
    /\ rpc = "off"

\* _detect_tags is not running
IdleDetect ==
    /\ docx = Absent
    /\ docx0 = Absent
    /\ dpc = "off"
    /\ tags = Detected(<< >>)

\* the service handles no request
IdleService ==
    /\ GCP_DISABLED = FALSE
    /\ db = FALSE
    /\ TEMPLATE_BUCKET = FALSE
    /\ libreoffice = FALSE
    /\ api_keys = << >>
    /\ req = << >>
    /\ hpc = << >>
    /\ resp = << >>
    /\ sess = << >>
    /\ trace = << >>

Init ==
    /\ IdleRecon
    /\ IdleDetect
    /\ IdleService
    /\ fs \in { [p \in Paths |->
                   IF p = InputPath THEN src
                   ELSE IF p = OutputPath THEN old
                   ELSE Absent] :
                src \in {Absent, Garbage} \cup { Zip(es) : es \in Containers },
                old \in {Absent, OldDestination} }
    /\ fs0 = fs
    /\ mode = "call"
    /\ args = NoArgs
    /\ pc = "idle"
    /\ zin = << >>
    /\ idx = 0
    /\ total = 0
    /\ faulted = {}
    /\ result = NoOutcome

\* lines 78-82 for a call with the given arguments
Open(m, input_path, output_path, enable_square, creatable) ==
    LET o == OpenOutcome(fs, input_path, output_path, creatable)
    IN  /\ mode' = m
        /\ args' = [input_path |-> input_path, output_path |-> output_path,
                    enable_square |-> enable_square]
        /\ fs0' = fs
        /\ fs' = o.fs
        /\ total' = 0
        /\ faulted' = {}
        /\ IF o.exc = "none"
           THEN /\ zin' = fs[input_path].entries
                /\ idx' = 1
                /\ pc' = "loop"
                /\ result' = NoOutcome
           ELSE /\ zin' = << >>
                /\ idx' = 0
                /\ pc' = "raised"
                /\ result' = Raised(o.exc, o.where)
        /\ UNCHANGED <<rvars, dvars, svars>>

\* normalize_docx(input_path, output_path, enable_square), also reached from
\* main with --output (which may name the input file itself)
CallNormalize ==
    /\ pc = "idle"
    /\ \E output_path \in {OutputPath, InputPath}, sq \in BOOLEAN,
          creatable \in BOOLEAN :
           Open("call", InputPath, output_path, sq, creatable)

\* main with --inplace: normalize_docx(args.input, tmp_out, ...)
MainInplace ==
    /\ pc = "idle"
    /\ \E sq \in BOOLEAN : Open("inplace", InputPath, TmpOut, sq, TRUE)

InLoop == pc = "loop" /\ idx <= Len(zin)

CurrentRead == ZipRead(fs[args.input_path], zin, zin[idx].name)

Advance(data, n, raised) ==
    /\ fs' = WriteStr(fs, args.output_path, zin[idx], data)
    /\ total' = total + n
    /\ idx' = idx + 1
    /\ faulted' = IF raised THEN faulted \cup {idx} ELSE faulted
    /\ UNCHANGED <<fs0, mode, args, pc, zin, result>>
    /\ UNCHANGED <<rvars, dvars, svars>>

Abort(exc, where) ==
    /\ fs' = CloseOut(fs, args.output_path)
    /\ pc' = "raised"
    /\ result' = Raised(exc, where)
    /\ UNCHANGED <<fs0, mode, args, zin, idx, total, faulted>>
    /\ UNCHANGED <<rvars, dvars, svars>>

\* line 84 raises: the read is outside the try block, the error leaves the
\* with block (which closes both archives) and reaches the caller
EntryReadFails ==
    /\ InLoop
    /\ ~CurrentRead.ok
    /\ Abort("BadZipFile", "read-entry")

\* lines 84, 85 (false), 97: a non-qualifying entry
EntryCopied ==
    /\ InLoop
    /\ CurrentRead.ok
    /\ ~Qualifying(zin[idx].name)
    /\ Advance(CurrentRead.data, 0, FALSE)

\* lines 84-93, 97: a qualifying entry, the try block completes
EntryNormalized ==
    /\ InLoop
    /\ CurrentRead.ok
    /\ Qualifying(zin[idx].name)
    /\ LET t == TransformEntry(CurrentRead.data, args.enable_square)
       IN  Advance(t.data, t.n, FALSE)

\* lines 84-88, 94-97: the try block raises before a count is added; data
\* still holds the bytes read
EntryFallback ==
    /\ InLoop
    /\ CurrentRead.ok
    /\ Qualifying(zin[idx].name)
    /\ Advance(CurrentRead.data, 0, TRUE)

\* line 97 raises (the destination cannot be written any more)
EntryWriteFails ==
    /\ InLoop
    /\ CurrentRead.ok
    /\ Abort("OSError", "destination")

\* line 98, after the with block closed both archives
NormalizeReturn ==
    /\ pc = "loop"
    /\ idx > Len(zin)
    /\ fs' = CloseOut(fs, args.output_path)
    /\ pc' = "returned"
    /\ result' = Returned(total)
    /\ UNCHANGED <<fs0, mode, args, zin, idx, total, faulted>>
    /\ UNCHANGED <<rvars, dvars, svars>>

\* line 118: shutil.move(tmp_out, args.input), then the temporary directory
\* is removed
MainInplaceMove ==
    /\ mode = "inplace"
    /\ pc = "returned"
    /\ fs' = [fs EXCEPT ![args.input_path] = fs[args.output_path],
                        ![args.output_path] = Absent]
    /\ pc' = "exit"
    /\ UNCHANGED <<fs0, mode, args, zin, idx, total, faulted, result>>
    /\ UNCHANGED <<rvars, dvars, svars>>

\* lines 115-117 when normalize_docx raises: the temporary directory is
\* removed and the exception ends main
MainInplaceRaises ==
    /\ mode = "inplace"
    /\ pc = "raised"
    /\ fs' = [fs EXCEPT ![args.output_path] = Absent]
    /\ pc' = "exit"
    /\ UNCHANGED <<fs0, mode, args, zin, idx, total, faulted, result>>
    /\ UNCHANGED <<rvars, dvars, svars>>

Next ==
    \/ CallNormalize
    \/ MainInplace
    \/ EntryReadFails
    \/ EntryCopied
    \/ EntryNormalized
    \/ EntryFallback
    \/ EntryWriteFails
    \/ NormalizeReturn
    \/ MainInplaceMove
    \/ MainInplaceRaises

Spec == Init /\ [][Next]_vars

(***************************************************************************)
(* Properties of normalize_docx and main.                                  *)
(***************************************************************************)
Called == pc \in {"loop", "returned", "raised", "exit"}

\* the entries of the destination archive
Dst == fs[args.output_path].entries

\* the bytes line 84 reads for position i of the source directory
DataRead(i) == ZipRead(Zip(zin), zin, zin[i].name).data

\* the bytes are the UTF-8 encoding of some text
ValidUtf8(d) == Encode(Decode(d)) = d

\* C1: a qualifying entry whose bytes are not valid UTF-8 is written with
\* the bytes of the source entry and adds nothing to the returned count.
C1_InvalidBytesPassThrough ==
    pc = "returned" =>
        /\ \A i \in 1..Len(zin) :
              Qualifying(zin[i].name) /\ ~ValidUtf8(zin[i].data)
              => Dst[i].data = zin[i].data
        /\ (\A i \in 1..Len(zin) :
              Qualifying(zin[i].name) => ~ValidUtf8(zin[i].data))
           => result.value = 0

\* C2: every (readable) entry whose name does not both start with 'word/' and
\* end with '.xml' has the same bytes in the destination as in the source.
C2_NonQualifyingIdentical ==
    pc = "returned" =>
        \A i \in 1..Len(zin) :
            ~Qualifying(zin[i].name) /\ zin[i].crc_ok
            => Dst[i].data = zin[i].data

\* The destination has one entry per source entry, under the same name and
\* at the same position.
NamesAndOrderPreserved ==
    pc = "returned" =>
        /\ Len(Dst) = Len(zin)
        /\ \A i \in 1..Len(zin) : Dst[i].name = zin[i].name

\* C8: the destination holds exactly the source's entries, in the same order
\* and with the same names; only the bytes of qualifying entries differ.
C8_SameEntriesSameOrder ==
    pc = "returned" =>
        /\ Len(Dst) = Len(zin)
        /\ \A i \in 1..Len(zin) :
              /\ Dst[i].name = zin[i].name
              /\ ~Qualifying(zin[i].name) /\ zin[i].crc_ok => Dst[i] = zin[i]

\* the other delimiter family: braces and brackets exchanged
SwapFamily(t) ==
    [k \in 1..Len(t) |->
        CASE t[k] = "{" -> "["
          [] t[k] = "[" -> "{"
          [] t[k] = "}" -> "]"
          [] t[k] = "]" -> "}"
          [] OTHER -> t[k]]

\* the curly reconstructor made to work on square delimiters
SquareByCurly(t) ==
    LET r == _normalize_jinja_curly(SwapFamily(t))
    IN  [text |-> SwapFamily(r.text), n |-> r.n]

\* what the entry at position i must become and contribute
ExpectedEntry(i) ==
    LET c == _normalize_jinja_curly(Decode(DataRead(i)))
        q == SquareByCurly(c.text)
    IN  IF args.enable_square
        THEN [data |-> Encode(q.text), n |-> c.n + q.n]
        ELSE [data |-> Encode(c.text), n |-> c.n]

RECURSIVE ExpectedTotal(_)
ExpectedTotal(i) ==
    IF i = 0 THEN 0
    ELSE ExpectedTotal(i - 1)
         + (IF Qualifying(zin[i].name) /\ i \notin faulted
            THEN ExpectedEntry(i).n ELSE 0)

C7_MissingSource ==
    Called /\ fs0[args.input_path].kind = "absent" =>
        /\ result.status = "raised"
        /\ result.exc = "FileNotFoundError"
        /\ fs = fs0

\* The call failed on a missing source while a file existed at the
\* destination path.
C7_Witness ==
    /\ pc = "raised"
    /\ mode = "call"
    /\ fs0[args.input_path].kind = "absent"
    /\ result.exc = "FileNotFoundError"
    /\ args.output_path = OutputPath
    /\ fs0[OutputPath] = OldDestination
    /\ fs[OutputPath] = OldDestination

\* C9: the source file changes only by being replaced with the complete
\* destination after a successful pass; a pass that fails (here: on a source
\* all of whose entries are readable) never alters it.
C9_SourceNeverMutated ==
    /\ pc = "raised" /\ (\A i \in 1..Len(zin) : zin[i].crc_ok)
       => fs[args.input_path] = fs0[args.input_path]
    /\ pc \in {"returned", "exit"}
       /\ fs[args.input_path] # fs0[args.input_path]
       => mode = "inplace" /\ pc = "exit" /\ result.status = "returned"

\* The in-place mode of main alone: the input file is replaced only by the
\* move that follows a successful pass.
InplaceReplacesOnlyOnSuccess ==
    mode = "inplace" /\ Called /\ fs[args.input_path] # fs0[args.input_path]
    => pc = "exit" /\ result.status = "returned"

\* C10: an error raised while reading, decoding or transforming one entry
\* is absorbed at that entry, so a call whose source and destination differ
\* never fails on an entry.
C10_EntryErrorsAbsorbed ==
    pc = "raised" /\ args.input_path # args.output_path
    => result.where # "read-entry"

\* The part of C10 the code does satisfy: an error inside the try block
\* leaves the bytes read in the destination and the pass goes on.
TransformErrorsAbsorbed ==
    pc = "returned" =>
        \A i \in faulted : Dst[i].data = DataRead(i)

\* C11: when normalize_docx fails after the destination was opened for
\* writing (idx >= 1: the with statement of line 82 was entered), the
\* destination path holds no partial container: it is absent or still the
\* file it was before the call.
C11_NoPartialDestination ==
    pc = "raised" /\ idx >= 1 /\ args.input_path # args.output_path
    => \/ fs[args.output_path] = Absent
       \/ fs[args.output_path] = fs0[args.output_path]

\* What the code leaves instead: a closed archive holding the entries
\* written before the error.
FailureLeavesPrefix ==
    pc = "raised" /\ idx >= 1 /\ args.input_path # args.output_path
    => /\ fs[args.output_path].kind = "zip"
       /\ Len(Dst) = idx - 1
       /\ \A i \in 1..Len(Dst) : Dst[i].name = zin[i].name

(***************************************************************************)
(* The reconstructor applied to a text, and again to its own output.       *)
(***************************************************************************)
IdleContainer ==
    /\ fs = [p \in Paths |-> Absent]
    /\ fs0 = fs
    /\ mode = "call"
    /\ args = NoArgs
    /\ pc = "off"
    /\ zin = << >>
    /\ idx = 0
    /\ total = 0
    /\ faulted = {}
    /\ result = NoOutcome

\* the pieces the input texts are built from
Tokens ==
    { <<"{">>, <<"}">>, <<" ">>, <<"<","b",">">>, <<"a">>, <<"1">>,
      <<">">>, <<"&","l","t",";">> }

RECURSIVE Flatten(_)
Flatten(ts) == IF ts = << >> THEN << >> ELSE Head(ts) \o Flatten(Tail(ts))

FreeTexts == { Flatten(ts) : ts \in SeqsUpTo(Tokens, MaxTokens) }

InitRecon ==
    /\ xml_text \in FreeTexts
    /\ shape = [kind |-> "free"]
    /\ pass1 = [text |-> << >>, n |-> 0]
    /\ pass2 = [text |-> << >>, n |-> 0]
    /\ rpc = "input"
    /\ IdleContainer
    /\ IdleDetect
    /\ IdleService

\* text, n = _normalize_jinja_curly(text)
Normalize ==
    /\ rpc = "input"
    /\ pass1' = _normalize_jinja_curly(xml_text)
    /\ rpc' = "once"
    /\ UNCHANGED <<xml_text, shape, pass2>>
    /\ UNCHANGED <<cvars, dvars, svars>>

\* the same call on the text the first call returned
Renormalize ==
    /\ rpc = "once"
    /\ pass2' = _normalize_jinja_curly(pass1.text)
    /\ rpc' = "twice"
    /\ UNCHANGED <<xml_text, shape, pass1>>
    /\ UNCHANGED <<cvars, dvars, svars>>

NextRecon == Normalize \/ Renormalize

SpecRecon == InitRecon /\ [][NextRecon]_vars

(***************************************************************************)
(* One fragmented placeholder: noise between the opening braces (n0),      *)
(* around the identifier (n1, n2) and between the closing braces (n3),     *)
(* inside a text that has no other brace.                                  *)
(***************************************************************************)
NoiseTokens == { <<" ">>, <<"<","b",">">>, <<"<","x","}","}",">">> }

Noises == { Flatten(ts) : ts \in SeqsUpTo(NoiseTokens, MaxNoise) }

Identifiers == { <<"a">>, <<"_","-","9">> }

Surroundings == { <<<< >>, << >>>>, <<<<"<","p",">">>, <<"x">>>> }

Shapes ==
    { [kind |-> "frag", v |-> v, n0 |-> a, n1 |-> b, n2 |-> c, n3 |-> d,
       pre |-> sur[1], suf |-> sur[2]] :
      v \in Identifiers, a \in Noises, b \in Noises, c \in Noises,
      d \in Noises, sur \in Surroundings }

FragText(sh) ==
    sh.pre \o <<"{">> \o sh.n0 \o <<"{">> \o sh.n1 \o sh.v \o sh.n2
           \o <<"}">> \o sh.n3 \o <<"}">> \o sh.suf

InitFrag ==
    /\ shape \in Shapes
    /\ xml_text = FragText(shape)
    /\ pass1 = [text |-> << >>, n |-> 0]
    /\ pass2 = [text |-> << >>, n |-> 0]
    /\ rpc = "input"
    /\ IdleContainer
    /\ IdleDetect
    /\ IdleService

SpecFrag == InitFrag /\ [][NextRecon]_vars

(***************************************************************************)
(* Properties of the reconstructor.                                        *)
(***************************************************************************)
\* The text of a second pass equals the text of the first (the count of the
\* second pass is another matter, see C3).
TextIdempotent == rpc = "twice" => pass2.text = pass1.text

\* C3: reconstruction is idempotent with a zero second count: applying the
\* reconstructor to its own output returns the same text and a count of 0.
C3_IdempotentZeroCount ==
    rpc = "twice" => pass2.text = pass1.text /\ pass2.n = 0

\* the number of matches of the curly pattern in s from i on whose cleaned
\* interior matches the identifier grammar
RECURSIVE ValidMatches(_, _)
ValidMatches(s, i) ==
    IF i > Len(s) THEN 0
    ELSE LET m == pattern_curly(s, i)
         IN  IF ~m.found THEN ValidMatches(s, i + 1)
             ELSE (IF MatchName(Cleaned(Slice(s, m.inner, m.close)))
                   THEN 1 ELSE 0) + ValidMatches(s, m.end)

\* C4: a matched delimiter pair whose cleaned interior fails the identifier
\* grammar is left exactly as in the input and does not increment the
\* count: the count is the number of matches with a valid interior, and a
\* text without any such match comes back unchanged.
C4_InvalidInteriorLeftAlone ==
    rpc = "once" =>
        /\ pass1.n = ValidMatches(xml_text, 1)
        /\ ValidMatches(xml_text, 1) = 0 => pass1.text = xml_text

\* the part of C4 that the code does satisfy
InvalidSpansUnchanged ==
    rpc = "once" /\ ValidMatches(xml_text, 1) = 0 => pass1.text = xml_text

Canonical(sh) == sh.pre \o <<"{", "{">> \o sh.v \o <<"}", "}">> \o sh.suf

\* C5 as stated: whatever the noise, one fragmented placeholder is replaced
\* by the contiguous {{v}} and the count is exactly 1.
C5_AnyNoiseRepaired ==
    rpc = "once" /\ shape.kind = "frag" =>
        pass1 = [text |-> Canonical(shape), n |-> 1]

InteriorNoise(sh) == sh.n1 \o sh.n2

\* C5 amended: when no tag placed around the identifier inside the interior
\* contains a closing brace, the fragmented placeholder is replaced by the
\* contiguous {{v}} and the count is exactly 1.
C5_NoiseRepaired ==
    rpc = "once" /\ shape.kind = "frag"
    /\ (\A k \in 1..Len(InteriorNoise(shape)) : InteriorNoise(shape)[k] # "}")
    => pass1 = [text |-> Canonical(shape), n |-> 1]

\* A placeholder with a tag in all four noise positions has been repaired.
C5_Witness ==
    /\ rpc = "once"
    /\ shape.kind = "frag"
    /\ shape.n0 = <<"<","b",">">>
    /\ shape.n1 = <<"<","b",">">>
    /\ shape.n2 = <<"<","b",">">>
    /\ shape.n3 = <<"<","b",">">>
    /\ xml_text # Canonical(shape)
    /\ pass1 = [text |-> Canonical(shape), n |-> 1]

(***************************************************************************)
(* The census: _detect_tags applied to the file at docx_path.              *)
(***************************************************************************)
NameHeader == <<"w","o","r","d","/","h",".","x","m","l">>
DetectNames == {NameDoc, NameHeader, NameApp}

\* the example of the specification: a, b and a again
TagsABA == <<"{","{","a","}","}","{","{","b","}","}","{","{","a","}","}">>
TagsB == <<"{","{","b","}","}">>
\* whitespace between the delimiters and the identifier
TagSpaced == <<"{","{"," ","a"," ","}","}">>
\* markup between the delimiters and the identifier
TagMarkup == <<"{","{","<","i",">","c","}","}">>
\* an invalid byte between the delimiters and the identifier
TagInvalidByte == <<"{","{","xFF","c","}","}">>
DetectDatas == {TagsABA, TagsB, TagSpaced, TagMarkup, TagInvalidByte}

DetectEntryKinds ==
    { [name |-> nm, data |-> d, crc_ok |-> TRUE] :
        nm \in DetectNames, d \in DetectDatas }
    \cup { [name |-> nm, data |-> TagsB, crc_ok |-> FALSE] :
             nm \in DetectNames }

DetectContainers == SeqsUpTo(DetectEntryKinds, MaxEntries)

InitDetect ==
    /\ IdleRecon
    /\ IdleContainer
    /\ IdleService
    /\ docx \in {Absent, Garbage} \cup { Zip(es) : es \in DetectContainers }
    /\ docx0 = docx
    /\ dpc = "ready"
    /\ tags = Detected(<< >>)

\* found = _detect_tags(effective_path): the container is opened with mode
\* 'r' and only read
DetectTags ==
    /\ dpc = "ready"
    /\ tags' = _detect_tags(docx)
    /\ dpc' = "done"
    /\ UNCHANGED <<docx, docx0>>
    /\ UNCHANGED <<rvars, cvars, svars>>

NextDetect == DetectTags

SpecDetect == InitDetect /\ [][NextDetect]_vars

(***************************************************************************)
(* Properties of _detect_tags.                                             *)
(***************************************************************************)
\* the positions of the entries the census looks at
Scanned == { i \in 1..Len(docx.entries) : ScansEntry(docx.entries[i].name) }

\* the names of entry i's own text, each once, in match order
OwnNames(i) == ScanText(Decode(docx.entries[i].data), 1, << >>)

\* the places <<entry, rank within the entry>> where the name v occurs
Places(v) ==
    UNION { { <<i, k>> : k \in { r \in 1..Len(OwnNames(i)) :
                                    OwnNames(i)[r] = v } } : i \in Scanned }

Earlier(p1, p2) == p1[1] < p2[1] \/ (p1[1] = p2[1] /\ p1[2] < p2[2])

FirstPlace(v) ==
    CHOOSE pl \in Places(v) : \A o \in Places(v) : o = pl \/ Earlier(pl, o)

\* the list holds each name occurring in a scanned entry once, in the order
\* of the first occurrences (entry order, then match order)
FirstSeenOrder(f) ==
    /\ \A j, k \in 1..Len(f) : j # k => f[j] # f[k]
    /\ \A j \in 1..Len(f) : Places(f[j]) # {}
    /\ \A i \in Scanned : \A k \in 1..Len(OwnNames(i)) :
           InSeq(OwnNames(i)[k], f)
    /\ \A j, k \in 1..Len(f) :
           j < k => Earlier(FirstPlace(f[j]), FirstPlace(f[k]))

AllReadable == \A i \in 1..Len(docx.entries) : docx.entries[i].crc_ok

\* C12: on a readable container _detect_tags returns each distinct name
\* once, ordered by first occurrence, where occurrences are ordered by the
\* position of the entry among the scanned entries and then by the position
\* of the match in that entry; names of other entries never appear.
C12_FirstSeenOrder ==
    dpc = "done" /\ docx.kind = "zip" /\ AllReadable
    => FirstSeenOrder(tags.found)

\* The same for containers whose entry names are distinct, where reading an
\* entry by name reads that entry.
FirstSeenOrderDistinctNames ==
    /\ dpc = "done" /\ docx.kind = "zip" /\ AllReadable
    /\ \A i, j \in 1..Len(docx.entries) :
           i # j => docx.entries[i].name # docx.entries[j].name
    => FirstSeenOrder(tags.found)

\* an error occurs inside _detect_tags: docx_path is missing or no archive,
\* or the read of a scanned entry fails
DetectError ==
    \/ docx.kind # "zip"
    \/ \E i \in Scanned : ~ZipRead(docx, docx.entries, docx.entries[i].name).ok

\* C13: _detect_tags never raises to its caller and never modifies the
\* container; on any internal error it returns the empty list, whatever it
\* had collected, and logs a warning.
C13_ErrorsGiveEmptyList ==
    dpc = "done"
    => /\ tags.raised = "none"
       /\ docx = docx0
       /\ DetectError => tags.found = << >> /\ tags.warned

\* a name was collected from the first entry when the read of the second
\* entry failed
C13_Witness ==
    /\ dpc = "done"
    /\ Len(docx.entries) = 2
    /\ docx.entries[1] = [name |-> NameDoc, data |-> TagsABA, crc_ok |-> TRUE]
    /\ docx.entries[2].name = NameHeader
    /\ ~docx.entries[2].crc_ok
    /\ tags = DetectFailed(<< >>)

\* The warning is logged only on an error.
WarningOnlyOnError == dpc = "done" /\ tags.warned => DetectError

\* "{{" v "}}" with nothing in between occurs in the text t
TightOccurrence(v, t) ==
    \E i \in 1..Len(t) :
        /\ i + Len(v) + 3 <= Len(t)
        /\ Slice(t, i, i + Len(v) + 4) = <<"{", "{">> \o v \o <<"}", "}">>

\* "{{" v "}}" occurs in t with nothing but whitespace between the
\* delimiters and v
LooseOccurrence(v, t) ==
    \E i, a, q \in 1..Len(t) :
        /\ i + 2 <= a /\ a + Len(v) <= q /\ q + 1 <= Len(t)
        /\ Slice(t, i, i + 2) = <<"{", "{">>
        /\ \A k \in (i + 2)..(a - 1) : IsSpace(t[k])
        /\ Slice(t, a, a + Len(v)) = v
        /\ \A k \in (a + Len(v))..(q - 1) : IsSpace(t[k])
        /\ Slice(t, q, q + 2) = <<"}", "}">>

\* the decoded text of scanned entry i
EntryText(i) == Decode(docx.entries[i].data)

\* C14 as stated: a name is reported only for the contiguous form, with no
\* character of any kind between the delimiters and the identifier.
C14_ContiguousOnly ==
    dpc = "done" =>
        \A j \in 1..Len(tags.found) :
            \E i \in Scanned : TightOccurrence(tags.found[j], EntryText(i))

\* C14: a name is reported only where the decoded text of a scanned entry
\* holds two open braces, the identifier and two close braces with nothing
\* but whitespace between the delimiters and the identifier; markup there
\* is not tolerated.
C14_WhitespaceOnly ==
    dpc = "done" =>
        \A j \in 1..Len(tags.found) :
            \E i \in Scanned : LooseOccurrence(tags.found[j], EntryText(i))

\* a name reported from the spaced form alone
C14_Witness ==
    /\ dpc = "done"
    /\ docx = Zip(<<[name |-> NameDoc, data |-> TagSpaced, crc_ok |-> TRUE]>>)
    /\ tags.found = << <<"a">> >>

(***************************************************************************)
(* The service of app/main.py: /process-document and /merge-pdf with the   *)
(* key check, the quota check and the quota consumption they share.  A     *)
(* handler is cut where another request can run in between: at the awaits  *)
(* of merge_pdf, and between the Firestore calls of handlers running in    *)
(* different workers or instances, which share the collection api_keys.    *)
(***************************************************************************)
MaxRequests == 2

\* the None of PLANS["illimite"]
NoQuota == -1

PLANS == [gratuit |-> 50, starter |-> 500, pro |-> 5000, illimite |-> NoQuota]

\* request.headers.get("X-API-Key") of a request without the header
NoHeader == ""
KnownKey == "k1"
UnknownKey == "k0"

\* if not api_key: raise HTTPException(status_code=401, ...)
get_api_key_from_request(r) == IF req[r].api_key = NoHeader THEN 401 ELSE 0

\* the check with a missing document read as an empty one
check_quota_or_raise_accepting_unknown(api_key) ==
    IF GCP_DISABLED THEN 0
    ELSE IF ~db THEN 503
    ELSE IF api_key \notin DOMAIN api_keys THEN 0
    ELSE LET data == api_keys[api_key]
             quota == PLANS[data.plan]
         IN  IF ~data.is_active THEN 403
             ELSE IF quota # NoQuota /\ data.quota_used >= quota THEN 429
             ELSE 0

\* check_quota_or_raise(api_key): the status of the HTTPException it
\* raises, 0 when it returns
check_quota_or_raise(api_key) ==
    IF GCP_DISABLED THEN 0
    ELSE IF ~db THEN 503
    ELSE IF api_key \notin DOMAIN api_keys THEN 401
    ELSE LET data == api_keys[api_key]
             quota == PLANS[data.plan]
         IN  IF ~data.is_active THEN 403
             ELSE IF quota # NoQuota /\ data.quota_used >= quota THEN 429
             ELSE 0

\* consume_quota_transaction: quota_used + 1 written in one transaction
\* (the caller passes a key whose document exists)
consume_quota_transaction(keys, api_key) ==
    [keys EXCEPT ![api_key].quota_used = @ + 1]

\* normalize_docx as one call, for a caller that waits for its end: the
\* loop of lines 83-97 from position i on, without injected faults
RECURSIVE NormalizeLoop(_, _, _, _, _, _, _)
NormalizeLoop(f, input_path, output_path, enable_square, infolist, i, tot) ==
    IF i > Len(infolist)
    THEN [fs |-> CloseOut(f, output_path), result |-> Returned(tot)]
    ELSE LET rd == ZipRead(f[input_path], infolist, infolist[i].name)
             t == IF Qualifying(infolist[i].name)
                  THEN TransformEntry(rd.data, enable_square)
                  ELSE [data |-> rd.data, n |-> 0]
         IN  IF ~rd.ok
             THEN [fs |-> CloseOut(f, output_path),
                   result |-> Raised("BadZipFile", "read-entry")]
             ELSE NormalizeLoop(WriteStr(f, output_path, infolist[i], t.data),
                                input_path, output_path, enable_square,
                                infolist, i + 1, tot + t.n)

normalize_docx(f, input_path, output_path, enable_square) ==
    LET o == OpenOutcome(f, input_path, output_path, TRUE)
    IN  IF o.exc # "none"
        THEN [fs |-> o.fs, result |-> Raised(o.exc, o.where)]
        ELSE NormalizeLoop(o.fs, input_path, output_path, enable_square,
                           f[input_path].entries, 1, 0)

\* DocxTemplate(effective_path) and doc.render(context) succeed on an
\* archive whose main document part can be read
Renderable(file) ==
    /\ file.kind = "zip"
    /\ \E i \in 1..Len(file.entries) : file.entries[i].name = NameDoc
    /\ ZipRead(file, file.entries, NameDoc).ok

\* the files of a session directory
TemplateDocx == "t.docx"
NormalizedDocx == "normalized.docx"
OutputDocx == "output.docx"
SessionPaths == {TemplateDocx, NormalizedDocx, OutputDocx}

NoSession == [exists |-> FALSE, files |-> [p \in SessionPaths |-> Absent]]
NewSession == [exists |-> TRUE, files |-> [p \in SessionPaths |-> Absent]]

NoTrace ==
    [template |-> Absent, normalized |-> "none", effective_path |-> "none",
     detected |-> Detected(<< >>), rendered |-> FALSE,
     rendered_from |-> Absent, consumed |-> FALSE, inner |-> 0]

\* the templates clients send or store
TemplateGood ==
    Zip(<<[name |-> NameDoc, data |-> DataFragmented, crc_ok |-> TRUE]>>)
TemplatePartlyDamaged ==
    Zip(<<[name |-> NameDoc, data |-> DataFragmented, crc_ok |-> TRUE],
          [name |-> NameApp, data |-> DataContiguous, crc_ok |-> FALSE]>>)
Templates == {TemplateGood, TemplatePartlyDamaged, Garbage}

ApiKeys == {NoHeader, KnownKey, UnknownKey}

ProcessRequest(k, src, nm, fl, js, fmt) ==
    [endpoint |-> "process-document", api_key |-> k, source |-> src,
     name |-> nm, file |-> fl, json_ok |-> js, output_format |-> fmt,
     pdf_files |-> "none"]

MergeRequest(k, pf) ==
    [endpoint |-> "merge-pdf", api_key |-> k, source |-> "none",
     name |-> TemplateDocx, file |-> Absent, json_ok |-> TRUE,
     output_format |-> "pdf", pdf_files |-> pf]

\* source "template_id": name is the path of {template_id}.docx and file
\* the blob of the bucket (Absent: no such blob); source "template": name
\* is template.filename and file the upload; "none": neither was sent
ProcessRequests ==
    { ProcessRequest(k, "none", TemplateDocx, Absent, js, fmt) :
        k \in ApiKeys, js \in BOOLEAN, fmt \in {"docx", "pdf"} }
    \cup { ProcessRequest(k, "template_id", nm, fl, js, fmt) :
             k \in ApiKeys, nm \in {TemplateDocx, NormalizedDocx},
             fl \in Templates \cup {Absent}, js \in BOOLEAN,
             fmt \in {"docx", "pdf"} }
    \cup { ProcessRequest(k, "template", nm, fl, js, fmt) :
             k \in ApiKeys, nm \in {TemplateDocx, NormalizedDocx},
             fl \in Templates, js \in BOOLEAN, fmt \in {"docx", "pdf"} }

MergeRequests ==
    { MergeRequest(k, pf) :
        k \in ApiKeys, pf \in {"two", "one", "not-pdf", "unreadable"} }

\* lifespan: with DISABLE_GCP=1 no client is created
Configs ==
    { c \in [GCP_DISABLED : BOOLEAN, db : BOOLEAN, TEMPLATE_BUCKET : BOOLEAN,
             libreoffice : BOOLEAN] :
        c.GCP_DISABLED => ~c.db /\ ~c.TEMPLATE_BUCKET }

\* the documents of the key the clients of the model own
KeyDocuments ==
    [plan : {"gratuit", "illimite"}, quota_used : {49, 50},
     is_active : BOOLEAN]

\* the state of a service that received the requests rq
Received(c, keys, rq) ==
    /\ GCP_DISABLED = c.GCP_DISABLED
    /\ db = c.db
    /\ TEMPLATE_BUCKET = c.TEMPLATE_BUCKET
    /\ libreoffice = c.libreoffice
    /\ api_keys = keys
    /\ req = rq
    /\ hpc = [r \in DOMAIN rq |-> "received"]
    /\ resp = [r \in DOMAIN rq |-> 0]
    /\ sess = [r \in DOMAIN rq |-> NoSession]
    /\ trace = [r \in DOMAIN rq |-> NoTrace]

\* one request of any kind, under any configuration
InitService ==
    /\ IdleRecon
    /\ IdleContainer
    /\ IdleDetect
    /\ \E c \in Configs, d \in KeyDocuments,
          q \in ProcessRequests \cup MergeRequests :
           Received(c, [k \in {KnownKey} |-> d], <<q>>)

\* what a handler does to its own request
Step(r, h, st, se, tr) ==
    /\ hpc' = [hpc EXCEPT ![r] = h]
    /\ resp' = [resp EXCEPT ![r] = st]
    /\ sess' = [sess EXCEPT ![r] = se]
    /\ trace' = [trace EXCEPT ![r] = tr]
    /\ UNCHANGED <<config, req>>
    /\ UNCHANGED <<rvars, cvars, dvars>>

\* lines 386-388 and 503-513: the status the handler raises before it
\* creates the session directory, 0 when it raises none
Refusal(r, incomplete) ==
    IF get_api_key_from_request(r) # 0 THEN get_api_key_from_request(r)
    ELSE IF check_quota_or_raise(req[r].api_key) # 0
    THEN check_quota_or_raise(req[r].api_key)
    ELSE IF incomplete THEN 400
    ELSE 0

Begin(r, incomplete) ==
    IF Refusal(r, incomplete) # 0
    THEN Step(r, "responded", Refusal(r, incomplete), sess[r], trace[r])
    ELSE Step(r, "begun", 0, NewSession, trace[r])

\* process_document, lines 386-390
ProcessBegin(r) ==
    /\ req[r].endpoint = "process-document"
    /\ hpc[r] = "received"
    /\ Begin(r, req[r].source = "none")
    /\ UNCHANGED api_keys

\* lines 482-485: every Exception raised inside the try block, an
\* HTTPException (of status inner) included, becomes HTTPException(500)
ProcessFails(r, inner) ==
    Step(r, "responded", 500, NoSession, [trace[r] EXCEPT !.inner = inner])

\* lines 392-398: the template is downloaded or copied to file_path
ProcessFetch(r) ==
    /\ req[r].endpoint = "process-document"
    /\ hpc[r] = "begun"
    /\ UNCHANGED api_keys
    /\ IF req[r].source = "template_id" /\ ~TEMPLATE_BUCKET
       THEN ProcessFails(r, 503)
       ELSE IF req[r].source = "template_id" /\ req[r].file = Absent
       THEN ProcessFails(r, 0)
       ELSE Step(r, "fetched", 0,
                 [sess[r] EXCEPT !.files[req[r].name] = req[r].file],
                 [trace[r] EXCEPT !.template = req[r].file])

\* lines 403-406: the normalized file when the call returned and the file
\* exists, the fetched file when the call raised
EffectivePath(n, file_path) ==
    IF n.result.status = "returned" /\ n.fs[NormalizedDocx].kind # "absent"
    THEN NormalizedDocx
    ELSE file_path

\* lines 409-413: detected = _detect_tags(effective_path), logged
Census(r, n, effective_path) ==
    Step(r, "normalized", 0,
         [sess[r] EXCEPT !.files = n.fs],
         [trace[r] EXCEPT !.normalized = n.result.status,
                          !.effective_path = effective_path,
                          !.detected = _detect_tags(n.fs[effective_path])])

\* the handler after normalize_docx ended with n
AfterNormalize(r, n) == Census(r, n, EffectivePath(n, req[r].name))

\* lines 400-413: normalize_docx(file_path, normalized_path), the choice of
\* effective_path, and the census that is logged
ProcessNormalize(r) ==
    /\ req[r].endpoint = "process-document"
    /\ hpc[r] = "fetched"
    /\ UNCHANGED api_keys
    /\ AfterNormalize(r, normalize_docx(sess[r].files, req[r].name,
                                        NormalizedDocx, FALSE))

\* lines 415-419: the context is parsed and the effective container is
\* rendered and saved as output.docx (the substitution of the context
\* values is outside the model)
ProcessRender(r) ==
    /\ req[r].endpoint = "process-document"
    /\ hpc[r] = "normalized"
    /\ UNCHANGED api_keys
    /\ LET effective == sess[r].files[trace[r].effective_path]
       IN  IF ~req[r].json_ok \/ ~Renderable(effective)
           THEN ProcessFails(r, 0)
           ELSE Step(r, "rendered", 0,
                     [sess[r] EXCEPT !.files[OutputDocx] = effective],
                     [trace[r] EXCEPT !.rendered = TRUE,
                                      !.rendered_from = effective])

\* line 420: if db: consume_quota_transaction(...)
ProcessConsume(r) ==
    /\ req[r].endpoint = "process-document"
    /\ hpc[r] = "rendered"
    /\ IF db
       THEN /\ api_keys' = consume_quota_transaction(api_keys, req[r].api_key)
            /\ Step(r, "consumed", 0, sess[r],
                    [trace[r] EXCEPT !.consumed = TRUE])
       ELSE /\ UNCHANGED api_keys
            /\ Step(r, "consumed", 0, sess[r], trace[r])

\* lines 434-481: the conversion to PDF when asked for, and the response
ProcessRespond(r) ==
    /\ req[r].endpoint = "process-document"
    /\ hpc[r] = "consumed"
    /\ UNCHANGED api_keys
    /\ IF req[r].output_format = "pdf" /\ ~libreoffice
       THEN ProcessFails(r, 501)
       ELSE Step(r, "responded", 200, sess[r], trace[r])

\* merge_pdf, lines 503-516
MergeBegin(r) ==
    /\ req[r].endpoint = "merge-pdf"
    /\ hpc[r] = "received"
    /\ Begin(r, req[r].pdf_files = "one")
    /\ UNCHANGED api_keys

\* lines 562-568: an HTTPException keeps its status, any other Exception
\* becomes HTTPException(500)
MergeFails(r, inner) ==
    Step(r, "responded", IF inner # 0 THEN inner ELSE 500, NoSession,
         [trace[r] EXCEPT !.inner = inner])

\* lines 518-543: the files are read (await f.read()) and merged
MergeFiles(r) ==
    /\ req[r].endpoint = "merge-pdf"
    /\ hpc[r] = "begun"
    /\ UNCHANGED api_keys
    /\ IF req[r].pdf_files = "not-pdf" THEN MergeFails(r, 400)
       ELSE IF req[r].pdf_files = "unreadable" THEN MergeFails(r, 0)
       ELSE Step(r, "rendered", 0, sess[r],
                 [trace[r] EXCEPT !.rendered = TRUE])

\* lines 545-561: the quota is consumed and the merged file is returned
MergeConsume(r) ==
    /\ req[r].endpoint = "merge-pdf"
    /\ hpc[r] = "rendered"
    /\ IF db
       THEN /\ api_keys' = consume_quota_transaction(api_keys, req[r].api_key)
            /\ Step(r, "responded", 200, sess[r],
                    [trace[r] EXCEPT !.consumed = TRUE])
       ELSE /\ UNCHANGED api_keys
            /\ Step(r, "responded", 200, sess[r], trace[r])

\* background_tasks.add_task(shutil.rmtree, session_dir), run after the
\* response was sent
Cleanup(r) ==
    /\ hpc[r] = "responded"
    /\ sess[r].exists
    /\ UNCHANGED api_keys
    /\ Step(r, "responded", resp[r], NoSession, trace[r])

NextService ==
    \/ \E r \in DOMAIN req : ProcessBegin(r)
    \/ \E r \in DOMAIN req : ProcessFetch(r)
    \/ \E r \in DOMAIN req : ProcessNormalize(r)
    \/ \E r \in DOMAIN req : ProcessRender(r)
    \/ \E r \in DOMAIN req : ProcessConsume(r)
    \/ \E r \in DOMAIN req : ProcessRespond(r)
    \/ \E r \in DOMAIN req : MergeBegin(r)
    \/ \E r \in DOMAIN req : MergeFiles(r)
    \/ \E r \in DOMAIN req : MergeConsume(r)
    \/ \E r \in DOMAIN req : Cleanup(r)

SpecService == InitService /\ [][NextService]_vars

\* up to MaxRequests well-formed requests of one active key on the plan
\* "gratuit", one or two units below its quota
QuotaRequests ==
    { ProcessRequest(KnownKey, "template", TemplateDocx, TemplateGood, TRUE,
                     "docx"),
      MergeRequest(KnownKey, "two") }

InitQuota ==
    /\ IdleRecon
    /\ IdleContainer
    /\ IdleDetect
    /\ \E used \in {PLANS.gratuit - 2, PLANS.gratuit - 1},
          rq \in [1..MaxRequests -> QuotaRequests] :
           Received([GCP_DISABLED |-> FALSE, db |-> TRUE,
                     TEMPLATE_BUCKET |-> TRUE, libreoffice |-> TRUE],
                    [k \in {KnownKey} |->
                       [plan |-> "gratuit", quota_used |-> used,
                        is_active |-> TRUE]],
                    rq)

SpecQuota == InitQuota /\ [][NextService]_vars

(***************************************************************************)
(* Properties of the service.                                              *)
(***************************************************************************)
ProcessDocument(r) == req[r].endpoint = "process-document"

\* what C15 asks of request r: a failed normalization leaves the handler
\* going with the template as it was fetched; nothing is rendered before
\* normalization was tried; what is rendered is the normalized container
\* after a successful normalization and the fetched template after a failed
\* one
FallsBackToTemplate(r) ==
    /\ hpc[r] = "normalized" /\ trace[r].normalized = "raised"
       => /\ trace[r].effective_path = req[r].name
          /\ sess[r].files[trace[r].effective_path] = trace[r].template
    /\ trace[r].rendered => trace[r].normalized # "none"
    /\ trace[r].rendered /\ trace[r].normalized = "returned"
       /\ hpc[r] \in {"rendered", "consumed"}
       => trace[r].rendered_from = sess[r].files[NormalizedDocx]
    /\ trace[r].rendered /\ trace[r].normalized = "raised"
       => trace[r].rendered_from = trace[r].template

\* C15: in /process-document a failure of normalize_docx never aborts the
\* request: the handler goes on to detection and rendering with the
\* original, un-normalized template as the effective container;
\* normalization always runs before rendering, and the rendered container
\* is the normalized one whenever normalization succeeded.
C15_NormalizationNeverFatal ==
    \A r \in DOMAIN req : ProcessDocument(r) => FallsBackToTemplate(r)

\* The same for templates whose file in the session directory is not
\* normalized.docx itself.
FallbackWhenPathsDiffer ==
    \A r \in DOMAIN req :
        ProcessDocument(r) /\ req[r].name # NormalizedDocx
        => FallsBackToTemplate(r)

\* a request answered 200 although its normalization failed
FallbackReached ==
    \E r \in DOMAIN req :
        /\ ProcessDocument(r)
        /\ trace[r].normalized = "raised"
        /\ resp[r] = 200

\* nothing of request r was processed: no session directory, nothing
\* fetched, normalized, rendered or consumed
Unprocessed(r) ==
    /\ hpc[r] \in {"received", "responded"}
    /\ ~sess[r].exists
    /\ trace[r] = NoTrace

\* C16 as stated: a /process-document request without the header, or whose
\* key has no document in the collection, is answered 401 before any
\* processing.
C16_UnknownKeyRefused ==
    \A r \in DOMAIN req :
        /\ ProcessDocument(r)
        /\ req[r].api_key = NoHeader \/ req[r].api_key \notin DOMAIN api_keys
        => /\ Unprocessed(r)
           /\ hpc[r] = "responded" => resp[r] = 401

\* the key store is consulted: GCP is not disabled and the Firestore
\* client exists
KeyStoreInUse == ~GCP_DISABLED /\ db

\* C16: a /process-document request without the X-API-Key header, or, when
\* the key store is in use, whose key has no document in it, is answered
\* 401 before any processing: no session directory, nothing normalized or
\* rendered, no quota consumed.
C16_RefusedBeforeProcessing ==
    \A r \in DOMAIN req :
        /\ ProcessDocument(r)
        /\ \/ req[r].api_key = NoHeader
           \/ KeyStoreInUse /\ req[r].api_key \notin DOMAIN api_keys
        => /\ Unprocessed(r)
           /\ hpc[r] = "responded" => resp[r] = 401

\* a request with an unknown key was answered while the store is in use
C16_Witness ==
    \E r \in DOMAIN req :
        /\ ProcessDocument(r)
        /\ req[r].api_key = UnknownKey
        /\ req[r].source = "template"
        /\ KeyStoreInUse
        /\ hpc[r] = "responded"
        /\ resp[r] = 401

\* Without the key store an unknown key is not refused: GCP disabled, the
\* request is processed; the client missing, it is answered 503.
UnknownKeyWithoutStore ==
    \A r \in DOMAIN req :
        /\ ProcessDocument(r)
        /\ req[r].api_key = UnknownKey
        /\ hpc[r] = "responded"
        /\ ~KeyStoreInUse
        => resp[r] # 401 /\ (~GCP_DISABLED => resp[r] = 503)

\* C17: for a key on a plan with a finite quota, under any interleaving of
\* concurrent /process-document and /merge-pdf requests using that key,
\* quota_used never exceeds the quota of the plan.
C17_QuotaNeverExceeded ==
    \A k \in DOMAIN api_keys :
        PLANS[api_keys[k].plan] # NoQuota
        => api_keys[k].quota_used <= PLANS[api_keys[k].plan]

\* One request at a time keeps within the quota: what a request consumes
\* was checked against the same quota_used.
QuotaKeptByOneRequest ==
    Len(req) = 1 => C17_QuotaNeverExceeded

\* two requests consumed although one unit was left
QuotaOverrun ==
    \E k \in DOMAIN api_keys :
        /\ PLANS[api_keys[k].plan] # NoQuota
        /\ api_keys[k].quota_used = PLANS[api_keys[k].plan] + 1
        /\ \A r \in DOMAIN req : resp[r] = 200

\* C18: in /process-document an error raised during processing with a
\* status of its own reaches the client with that status (501 when PDF is
\* asked for and libreoffice is missing, 503 when storage is not configured
\* for a template_id request), and the session directory is removed.
C18_StatusReachesClient ==
    \A r \in DOMAIN req :
        ProcessDocument(r) /\ hpc[r] = "responded" /\ trace[r].inner # 0
        => resp[r] = trace[r].inner /\ ~sess[r].exists

\* What the handler does: every error raised after the session directory
\* was created is answered 500 and the directory is removed.
ProcessingErrorsAnswered500 ==
    \A r \in DOMAIN req :
        /\ ProcessDocument(r)
        /\ hpc[r] = "responded"
        /\ trace[r].inner # 0 \/ (resp[r] >= 400 /\ trace[r] # NoTrace)
        => resp[r] = 500 /\ ~sess[r].exists

\* /merge-pdf keeps the status of the HTTPException raised while merging
MergeKeepsStatus ==
    \A r \in DOMAIN req :
        ~ProcessDocument(r) /\ hpc[r] = "responded" /\ trace[r].inner # 0
        => resp[r] = trace[r].inner /\ ~sess[r].exists

\* the steps ended as the call n
EndedAs(n) == fs = n.fs /\ result = n.result

\* normalize_docx taken as one call gives what its steps give when no fault
\* is injected into a try block or into the destination.
CallAgreesWithSteps ==
    pc \in {"returned", "raised"} /\ faulted = {} /\ result.exc # "OSError"
    => EndedAs(normalize_docx(fs0, args.input_path, args.output_path,
                              args.enable_square))
====
